---- MODULE Spec2Model ----
(***************************************************************************)
(* Model of control/modelsimp.py (hsvd, modred, balred) and                *)
(* control/passivity.py (ispassive, getPassiveIndex).                      *)
(*                                                                         *)
(* Real numbers are exact rationals <<num, den>> (den > 0, lowest terms).  *)
(* A matrix is a record [nr, nc, a] with a[i][j] its entries (1-based);    *)
(* index lists such as ELIM and NELIM hold 0-based indices as in the code. *)
(* A Python optional value is <<>> for None and <<v>> for a value v.       *)
(***************************************************************************)
EXTENDS Integers, Sequences, FiniteSets, TLC

VARIABLES
    sys,            \* the system the calls are made on
    cvx,            \* passivity.py's module variable cvx: TRUE if cvxopt was imported
    slycot,         \* TRUE if the slycot package can be imported
    show_progress,  \* cvx.solvers.options['show_progress'] (cvxopt starts with it on)
    pc,             \* "idle", or how the last call ended: "returned" or "raised"
    call,           \* the last call and its arguments
    result,         \* what the last call returned or raised
    events          \* the steps the last call went through, in order

vars == <<sys, cvx, slycot, show_progress, pc, call, result, events>>

-----------------------------------------------------------------------------
(* Bounds of the model *)

\* largest number of states n of a system
MaxN == 3
\* largest order that balred is asked for
MaxOrder == 2
\* longest list of orders that balred is given
MaxOrders == 2
\* largest entry of a solution vector the convex solver may return
MaxSol == 2

None == <<>>
Some(v) == <<v>>

-----------------------------------------------------------------------------
(* Exact rational arithmetic *)

Abs(x) == IF x < 0 THEN -x ELSE x

RECURSIVE Gcd(_, _)
Gcd(a, b) == IF b = 0 THEN a ELSE Gcd(b, a % b)

\* lowest terms, positive denominator
QNorm(x) ==
    LET g == Gcd(Abs(x[1]), Abs(x[2]))
        s == IF x[2] < 0 THEN -1 ELSE 1
    IN  << (s * x[1]) \div g, (s * x[2]) \div g >>

\* the arithmetic below keeps denominators positive; Mat reduces every entry
Q(k) == <<k, 1>>
QAdd(x, y) == <<x[1] * y[2] + y[1] * x[2], x[2] * y[2]>>
QNeg(x) == <<-x[1], x[2]>>
QSub(x, y) == <<x[1] * y[2] - y[1] * x[2], x[2] * y[2]>>
QMul(x, y) == <<x[1] * y[1], x[2] * y[2]>>
QDiv(x, y) == IF y[1] < 0 THEN <<-(x[1] * y[2]), -(x[2] * y[1])>>
              ELSE <<x[1] * y[2], x[2] * y[1]>>
QPos(x) == x[1] > 0
QZero(x) == x[1] = 0
QEq(x, y) == x[1] * y[2] = y[1] * x[2]

RECURSIVE QSum(_, _, _)
QSum(F(_), lo, hi) == IF lo > hi THEN Q(0) ELSE QAdd(F(lo), QSum(F, lo + 1, hi))

-----------------------------------------------------------------------------
(* Dense matrices *)

\* <<F(1), ..., F(n)>>
RECURSIVE SeqOf(_, _)
SeqOf(F(_), n) == IF n = 0 THEN <<>> ELSE Append(SeqOf(F, n - 1), F(n))

Mat(nr, nc, F(_, _)) ==
    [nr |-> nr, nc |-> nc, a |-> SeqOf(LAMBDA i : SeqOf(LAMBDA j : QNorm(F(i, j)), nc), nr)]

Eye(n) == Mat(n, n, LAMBDA i, j : IF i = j THEN Q(1) ELSE Q(0))

MatSub(X, Y) == Mat(X.nr, X.nc, LAMBDA i, j : QSub(X.a[i][j], Y.a[i][j]))
MatScale(q, X) == Mat(X.nr, X.nc, LAMBDA i, j : QMul(q, X.a[i][j]))
\* the matrix product, X * Y on numpy matrices and np.dot on arrays
MatMul(X, Y) ==
    Mat(X.nr, Y.nc, LAMBDA i, j : QSum(LAMBDA k : QMul(X.a[i][k], Y.a[k][j]), 1, X.nc))

\* M[:, cols] and M[rows, :] for lists of 0-based indices
Cols(M, cols) == Mat(M.nr, Len(cols), LAMBDA i, j : M.a[i][cols[j] + 1])
Rows(M, rows) == Mat(Len(rows), M.nc, LAMBDA i, j : M.a[rows[i] + 1][j])
\* np.concatenate((X, Y), axis=1)
HStack(X, Y) ==
    Mat(X.nr, X.nc + Y.nc, LAMBDA i, j : IF j <= X.nc THEN X.a[i][j] ELSE Y.a[i][j - X.nc])
\* M[:, :k] and M[:, k:]
ColsBefore(M, k) == Mat(M.nr, k, LAMBDA i, j : M.a[i][j])
ColsFrom(M, k) == Mat(M.nr, M.nc - k, LAMBDA i, j : M.a[i][j + k])

\* M without row r and column c (1-based)
Minor(M, r, c) ==
    Mat(M.nr - 1, M.nc - 1,
        LAMBDA i, j : M.a[IF i < r THEN i ELSE i + 1][IF j < c THEN j ELSE j + 1])

Sign(k) == IF k % 2 = 0 THEN Q(1) ELSE Q(-1)

\* the determinant, expanded along the first row
RECURSIVE Det(_)
Det(M) ==
    IF M.nr = 0 THEN Q(1)
    ELSE QSum(LAMBDA j : QMul(QMul(Sign(1 + j), M.a[1][j]), Det(Minor(M, 1, j))), 1, M.nc)

\* the inverse of a nonsingular square matrix (adjugate over determinant)
Inv(M) ==
    LET d == Det(M)
    IN  Mat(M.nr, M.nc, LAMBDA i, j : QDiv(QMul(Sign(i + j), Det(Minor(M, j, i))), d))

\* the elements of a set of integers in ascending order
RECURSIVE SetToSeq(_)
SetToSeq(S) ==
    IF S = {} THEN <<>>
    ELSE LET x == CHOOSE y \in S : \A z \in S : y <= z
         IN  <<x>> \o SetToSeq(S \ {x})

RECURSIVE SetSum(_, _)
SetSum(F(_), S) ==
    IF S = {} THEN Q(0)
    ELSE LET x == CHOOSE y \in S : TRUE
         IN  QAdd(F(x), SetSum(F, S \ {x}))

-----------------------------------------------------------------------------
(* Eigenvalue test *)

\* the coefficient a_k of det(sI - A) = s^n + a_1 s^(n-1) + ... + a_n:
\* (-1)^k times the sum of the principal minors of order k
CharCoef(A, k) ==
    LET subs == { S \in SUBSET (0..(A.nr - 1)) : Cardinality(S) = k }
        minor(S) == LET idx == SetToSeq(S) IN Det(Rows(Cols(A, idx), idx))
    IN  QMul(Sign(k), SetSum(minor, subs))

CharPoly(A) == SeqOf(LAMBDA k : CharCoef(A, k), A.nr)

\* the k-th leading principal block of the Hurwitz matrix of s^n + a_1 s^(n-1) + ...
HurwitzBlock(a, k) ==
    LET n == Len(a)
        coef(d) == IF d = 0 THEN Q(1) ELSE IF d < 0 \/ d > n THEN Q(0) ELSE a[d]
    IN  Mat(k, k, LAMBDA i, j : coef(2 * j - i))

\* every root of the characteristic polynomial has a negative real part
\* (Routh-Hurwitz: all leading principal minors of the Hurwitz matrix are positive)
Hurwitz(A) ==
    LET a == CharPoly(A)
    IN  \A k \in 1..Len(a) : QPos(Det(HurwitzBlock(a, k)))

\* np.any(np.linalg.eigvals(A).real >= bound)
AnyEigRealGeq(A, bound) == ~Hurwitz(MatSub(A, MatScale(bound, Eye(A.nr))))

-----------------------------------------------------------------------------
(* LTI systems *)

\* StateSpace(A, B, C, D): a system of the given matrices and timebase dt
\* (dt = None unspecified, 0 continuous, 1 discrete)
StateSpace(A, B, C, D, dt) ==
    [kind |-> "StateSpace", A |-> A, B |-> B, C |-> C, D |-> D, dt |-> dt]

nstates(s) == s.A.nr
ninputs(s) == s.B.nc
noutputs(s) == s.C.nr

\* isctime(sys): continuous time, or timebase unspecified
isctime(s) == s.dt = None \/ s.dt = Some(0)
\* isdtime(sys, strict=True): a discrete timebase
isdtime_strict(s) == s.dt # None /\ s.dt # Some(0)

DiagVals == {-1, 0}
OffVals == {-1, 0, 1}
Timebases == {None, Some(0), Some(1)}
\* (inputs, outputs) of the systems drawn
Shapes == {<<1, 1>>, <<1, 2>>}

\* the matrices with diagonal d and entries u at (i, j), v at (j, i)
AMat(n, d, i, j, u, v) ==
    Mat(n, n, LAMBDA r, c : IF r = c THEN Q(d[r])
                            ELSE IF r = i /\ c = j THEN Q(u)
                            ELSE IF r = j /\ c = i THEN Q(v)
                            ELSE Q(0))

AMatrices(n) ==
    { AMat(n, d, 0, 0, 0, 0) : d \in [1..n -> DiagVals] }
    \cup UNION { { AMat(n, d, ij[1], ij[2], uv[1], uv[2]) :
                       ij \in {x \in (1..n) \X (1..n) : x[1] < x[2]},
                       uv \in OffVals \X OffVals }
                 : d \in [1..n -> DiagVals] }

BMat(n, m) == Mat(n, m, LAMBDA i, j : Q(1))
CMat(p, n) == Mat(p, n, LAMBDA i, j : IF (i + j) % 2 = 0 THEN Q(1) ELSE Q(-1))
DMat(p, m) == Mat(p, m, LAMBDA i, j : Q(i))

Systems ==
    UNION { { StateSpace(A, BMat(n, mp[1]), CMat(mp[2], n), DMat(mp[2], mp[1]), dt) :
                  A \in AMatrices(n), mp \in Shapes, dt \in Timebases }
            : n \in 1..MaxN }

-----------------------------------------------------------------------------
(* Outcomes of a call *)

Returned(v) == [pc |-> "returned", result |-> v]
Raised(exc, msg) == [pc |-> "raised", result |-> [kind |-> "exception", exc |-> exc, msg |-> msg]]

PyNone == [kind |-> "None"]
PyBool(b) == [kind |-> "bool", b |-> b]
PyFloat(x) == [kind |-> "float", x |-> x]
PyList(items) == [kind |-> "list", items |-> items]

-----------------------------------------------------------------------------
(* modred *)

\* np.sort: ascending
RECURSIVE Insert(_, _)
Insert(x, s) ==
    IF s = <<>> THEN <<x>>
    ELSE IF x <= Head(s) THEN <<x>> \o s
    ELSE <<Head(s)>> \o Insert(x, Tail(s))

RECURSIVE Sort(_)
Sort(s) == IF s = <<>> THEN <<>> ELSE Insert(Head(s), Sort(Tail(s)))

SeqRange(s) == { s[i] : i \in DOMAIN s }

\* [i for i in range(n) if i not in ELIM]
RECURSIVE NotIn(_, _, _)
NotIn(i, n, ELIM) ==
    IF i >= n THEN <<>>
    ELSE (IF i \in SeqRange(ELIM) THEN <<>> ELSE <<i>>) \o NotIn(i + 1, n, ELIM)

\* np.linalg.matrix_rank(M) == M.nr for a square matrix M
FullRank(M) == ~QZero(Det(M))

\* np.linalg.solve(M, R)
Solve(M, R) == MatMul(Inv(M), R)

\* the residualized matrices, lines 196-203
MatchDC(A11, A12, A21, A22, B1, B2, C1, C2, D) ==
    LET A22I_A21_B2 == Solve(A22, HStack(A21, B2))
        A22I_A21 == ColsBefore(A22I_A21_B2, A21.nc)
        A22I_B2 == ColsFrom(A22I_A21_B2, A21.nc)
        Ar == MatSub(A11, MatMul(A12, A22I_A21))
        Br == MatSub(B1, MatMul(A12, A22I_B2))
        Cr == MatSub(C1, MatMul(C2, A22I_A21))
        Dr == MatSub(D, MatMul(C2, A22I_B2))
    IN  StateSpace(Ar, Br, Cr, Dr, None)

\* the discarded-state matrices, lines 206-209
Truncate(A11, B1, C1, D) == StateSpace(A11, B1, C1, D, None)

\* lines 153-161: the checks made before ELIM and method are looked at
Proceed == [pc |-> "running"]

\* modred_checks without the test of lines 160-161
modred_checks_unchecked(s) ==
    IF ~isctime(s) THEN Raised("NotImplementedError", "discrete time") ELSE Proceed

modred_checks(s) ==
    IF ~isctime(s) THEN Raised("NotImplementedError", "discrete time")
    ELSE IF AnyEigRealGeq(s.A, Q(0)) THEN Raised("ValueError", "unstable")
    ELSE Proceed

\* lines 163-214: the partition and the reduction
modred_reduce(s, ELIM0, method) ==
    LET ELIM == Sort(ELIM0)
        NELIM == NotIn(0, s.A.nr, ELIM)
    IN  IF NELIM = <<>> THEN Raised("IndexError", "NELIM[0]")
        ELSE IF ELIM = <<>> THEN Raised("IndexError", "ELIM[0]")
        ELSE
          LET A1 == Cols(s.A, NELIM)
              A11 == Rows(A1, NELIM)
              A21 == Rows(A1, ELIM)
              A2 == Cols(s.A, ELIM)
              A12 == Rows(A2, NELIM)
              A22 == Rows(A2, ELIM)
              C1 == Cols(s.C, NELIM)
              C2 == Cols(s.C, ELIM)
              B1 == Rows(s.B, NELIM)
              B2 == Rows(s.B, ELIM)
          IN  IF method = "matchdc" THEN
                  IF ~FullRank(A22) THEN Raised("ValueError", "A22 singular")
                  ELSE Returned(MatchDC(A11, A12, A21, A22, B1, B2, C1, C2, s.D))
              ELSE IF method = "truncate" THEN Returned(Truncate(A11, B1, C1, s.D))
              ELSE Raised("ValueError", "method")

\* modred(sys, ELIM, method), given the outcome of its checks
modred(checked, s, ELIM, method) ==
    IF checked.pc = "raised" THEN checked ELSE modred_reduce(s, ELIM, method)

Methods == {"truncate", "matchdc", "other"}

\* the lists of distinct state indices of an n-state system, ascending or descending
RECURSIVE Reverse(_)
Reverse(s) == IF s = <<>> THEN <<>> ELSE Reverse(Tail(s)) \o <<Head(s)>>

ElimLists(n) ==
    { SetToSeq(S) : S \in SUBSET (0..(n - 1)) }
    \cup { Reverse(SetToSeq(S)) : S \in SUBSET (0..(n - 1)) }

-----------------------------------------------------------------------------
(* hsvd *)

GramVals == {0, 1, 4}

Diag(d) == Mat(Len(d), Len(d), LAMBDA i, j : IF i = j THEN Q(d[i]) ELSE Q(0))

\* what gram(sys, 'c') and gram(sys, 'o') give: symmetric positive semidefinite
\* n x n matrices Wc and Wo (the pairs drawn are diagonal) for a stable system,
\* ValueError for an unstable one; nothing if hsvd raises before it calls gram
Gramians(s, unstable) ==
    LET Ds == { Diag(d) : d \in [1..nstates(s) -> GramVals] }
    IN  IF isdtime_strict(s) THEN { [gram |-> "not called"] }
        ELSE IF unstable THEN { [gram |-> "unstable"] }
        ELSE { [gram |-> "ok", Wc |-> W, Wo |-> W] : W \in Ds }
             \cup { [gram |-> "ok", Wc |-> W, Wo |-> Eye(nstates(s))] : W \in Ds }

\* np.linalg.eig(M)[0] of a diagonal matrix: its diagonal
Eig(M) == SeqOf(LAMBDA i : M.a[i][i], M.nr)

\* np.sqrt of a rational that is the square of a natural number
Sqrt(x) == Q(CHOOSE r \in 0..x[1] : r * r = x[1])

QLeq(x, y) == x[1] * y[2] <= y[1] * x[2]

RECURSIVE QInsert(_, _)
QInsert(x, s) ==
    IF s = <<>> THEN <<x>>
    ELSE IF QLeq(x, Head(s)) THEN <<x>> \o s
    ELSE <<Head(s)>> \o QInsert(x, Tail(s))

\* np.sort(hsv): each row ascending
RECURSIVE SortRow(_)
SortRow(s) == IF s = <<>> THEN <<>> ELSE QInsert(Head(s), SortRow(Tail(s)))

\* the row left as np.sort gave it
Fliplr_unflipped(s) == s

\* np.fliplr(hsv): each row reversed
Fliplr(s) == Reverse(s)

\* lines 97-108, given the gramians
hsv_of(Wc, Wo) ==
    LET WoWc == MatMul(Wo, Wc)
        w == Eig(WoWc)
        hsv == SeqOf(LAMBDA i : Sqrt(w[i]), Len(w))
    IN  [kind |-> "ndarray", rows |-> <<Fliplr(SortRow(hsv))>>]

\* hsvd(sys), W being what gram gives
hsvd(s, W) ==
    IF isdtime_strict(s) THEN Raised("NotImplementedError", "discrete time")
    ELSE IF W.gram = "unstable" THEN Raised("ValueError", "gram: unstable")
    ELSE Returned(hsv_of(W.Wc, W.Wo))

-----------------------------------------------------------------------------
(* balred *)

Scalar(i) == [tag |-> "scalar", order |-> i]
List(l) == [tag |-> "list", orders |-> l]

\* what the slycot kernels return is opaque here: the kernel called, the order
\* and the boundary asked for, and whether D is sys.D or the kernel's Dr
Reduced(kernel, nr, alpha, D) ==
    [kind |-> "StateSpace", kernel |-> kernel, order |-> nr, alpha |-> alpha, D |-> D]

\* line 310
balred_unstable(s) == AnyEigRealGeq(s.A, Q(0))

\* lines 304-320 for the first k orders; fail_at is the position in orders at
\* which the kernel raises (0: nowhere)
RECURSIVE balred_loop(_, _, _, _, _)
balred_loop(orders, k, method, alpha, unstable) ==
    IF k = 0 THEN <<>>
    ELSE LET i == orders[k]
             r == IF method = "truncate"
                  THEN IF unstable THEN Reduced("ab09md", i, Some(alpha), "sys.D")
                       ELSE Reduced("ab09ad", i, None, "sys.D")
                  ELSE Reduced("ab09nd", i, Some(alpha), "Dr")
         IN  Append(balred_loop(orders, k - 1, method, alpha, unstable), r)

balred(s, orders0, method, alpha0, importable, unstable, fail_at) ==
    IF method # "truncate" /\ method # "matchdc" THEN Raised("ValueError", "method")
    ELSE IF ~importable THEN Raised("ControlSlycot", "slycot")
    ELSE
      LET alpha == IF alpha0 = None THEN Q(0) ELSE alpha0[1]
          orders == IF orders0.tag = "scalar" THEN <<orders0.order>> ELSE orders0.orders
          rsys == balred_loop(orders, Len(orders), method, alpha, unstable)
      IN  IF fail_at \in 1..Len(orders) THEN Raised("ValueError", "kernel")
          ELSE IF Len(orders) = 1 THEN Returned(rsys[1])
          ELSE Returned(PyList(rsys))

RECURSIVE SeqsUpTo(_, _)
SeqsUpTo(S, n) ==
    IF n = 0 THEN {<<>>}
    ELSE LET shorter == SeqsUpTo(S, n - 1)
         IN  shorter \cup { Append(q, x) : q \in shorter, x \in S }

OrdersArgs ==
    { Scalar(i) : i \in 1..MaxOrder } \cup { List(l) : l \in SeqsUpTo(1..MaxOrder, MaxOrders) }

Alphas == {None, Some(Q(-2))}

-----------------------------------------------------------------------------
(* ispassive, getPassiveIndex *)

\* the (i, j) with j <= i in the order of the loops of lines 44-46 and 60-62
RECURSIVE BasisFrom(_, _)
BasisFrom(k, n) ==
    IF k >= n * n THEN <<>>
    ELSE (IF k % n <= k \div n THEN << <<k \div n, k % n>> >> ELSE <<>>) \o BasisFrom(k + 1, n)

\* a flattened matrix is kept as what it was built from and its number of entries
Flat(what, ij, size) == [what |-> what, ij |-> ij, size |-> size]

\* __make_P_basis_matrices__(n, make_LMI_matrix): one flattened
\* (n+m) x (n+m) matrix for each basis element of P
make_P_basis_matrices(n, m) ==
    LET b == BasisFrom(0, n)
    IN  SeqOf(LAMBDA k : Flat("make_LMI_matrix(P)", b[k], (n + m) * (n + m)), Len(b))

\* lines 60-66 without the test of line 62: one matrix for each (i, j)
P_pos_def_constraint_unfiltered(n) ==
    SeqOf(LAMBDA k : Flat("-P", <<(k - 1) \div n, (k - 1) % n>>, n * n), n * n)

\* __P_pos_def_constraint__(n): one flattened n x n matrix for each basis element
P_pos_def_constraint(n) ==
    LET b == BasisFrom(0, n)
    IN  SeqOf(LAMBDA k : Flat("-P", b[k], n * n), Len(b))

\* cvx.solvers.sdp(c, Gs, hs), x being what the solver finds:
\* None, or a vector with one entry for each entry of c
sdp(c, Gs, hs, x) == [x |-> x]

\* the vectors drawn: zero but for the last entry
SolVec(nvars, v) == SeqOf(LAMBDA k : IF k = nvars THEN Q(v) ELSE Q(0), nvars)
SdpOutcomes(nvars) == {None} \cup { Some(SolVec(nvars, v)) : v \in (-MaxSol)..MaxSol }

\* the outcome of a passivity call: how it ended, its steps, and the solver option
PassOut(out, ev, sp) ==
    [pc |-> out.pc, result |-> out.result, events |-> ev, show_progress |-> sp]

\* np.ravel(sol["x"])[-1]: np.ravel(None) is the one-element array [None]
LastOfRavel(x) == IF x = None THEN PyNone ELSE PyFloat(x[1][Len(x[1])])

\* the checks of lines 100-109 with the last two in the other order
ispassive_checks_dimension_first(s, nu, rho, cvxopt) ==
    IF ~cvxopt THEN Raised("ModuleNotFoundError", "cvxopt")
    ELSE IF ninputs(s) # noutputs(s) THEN Raised("Exception", "inputs and outputs")
    ELSE IF ~isctime(s) /\ rho # None /\ nu # None THEN Raised("Exception", "discrete time")
    ELSE Proceed

\* lines 100-109: the checks made before the system is parsed
ispassive_checks(s, nu, rho, cvxopt) ==
    IF ~cvxopt THEN Raised("ModuleNotFoundError", "cvxopt")
    ELSE IF ~isctime(s) /\ rho # None /\ nu # None THEN Raised("Exception", "discrete time")
    ELSE IF ninputs(s) # noutputs(s) THEN Raised("Exception", "inputs and outputs")
    ELSE Proceed

ispassive(s, nu, rho, cvxopt, sp, x) ==
    IF ispassive_checks(s, nu, rho, cvxopt).pc = "raised"
    THEN PassOut(ispassive_checks(s, nu, rho, cvxopt), <<>>, sp)
    ELSE
      LET n == nstates(s)
          m == ninputs(s)
          sys_matrix_list0 == make_P_basis_matrices(n, m)
          P_matrix_list0 == P_pos_def_constraint(n)
          number_of_opt_vars == (n * n - n) \div 2 + n
          c0 == SeqOf(LAMBDA k : Q(0), number_of_opt_vars)
          index == \/ nu # None /\ rho = None
                   \/ rho # None /\ nu = None
          coefficents == IF nu # None THEN "rho_coefficents_matrix"
                         ELSE "nu_coefficents_matrix"
          sys_matrix_list ==
              IF index THEN Append(sys_matrix_list0, Flat(coefficents, <<>>, (n + m) * (n + m)))
              ELSE sys_matrix_list0
          c == IF index THEN Append(c0, Q(-1)) ELSE c0
          P_matrix_list ==
              IF index THEN Append(P_matrix_list0, Flat("zeros_like(A)", <<>>, n * n))
              ELSE P_matrix_list0
          Gs == <<sys_matrix_list, P_matrix_list>>
          hs == << [rows |-> n + m, cols |-> n + m], [rows |-> n, cols |-> n] >>
          sol == sdp(c, Gs, hs, x)
          ev == << [ev |-> "parse_lti"],
                   [ev |-> "sdp", c |-> c, Gs |-> Gs, hs |-> hs] >>
      IN  IF nu = None /\ rho = None
          THEN PassOut(Returned(PyBool(sol.x # None)), ev, FALSE)
          ELSE PassOut(Returned(LastOfRavel(sol.x)), ev, FALSE)

\* the number of entries of c in ispassive(s, nu, rho)
NumVars(s, nu, rho) ==
    LET n == nstates(s)
    IN  (n * n - n) \div 2 + n + (IF (nu = None) # (rho = None) THEN 1 ELSE 0)

\* lines 214 and 216
Baseline == <<1, 1000000>>

getPassiveIndex(s, index_type, cvxopt, sp, x) ==
    IF index_type = None THEN PassOut(Raised("Exception", "index_type"), <<>>, sp)
    ELSE IF index_type = Some("input") THEN ispassive(s, None, Some(Baseline), cvxopt, sp, x)
    ELSE IF index_type = Some("output") THEN ispassive(s, Some(Baseline), None, cvxopt, sp, x)
    ELSE PassOut(Returned(PyNone), <<>>, sp)

Indices == {None, Some(Q(1))}
IndexTypes == {None, Some("input"), Some("output"), Some("both")}

-----------------------------------------------------------------------------
(* The calls *)

Init ==
    /\ sys \in Systems
    /\ cvx \in BOOLEAN
    /\ slycot \in BOOLEAN
    /\ show_progress = TRUE
    /\ pc = "idle"
    /\ call = [op |-> "none"]
    /\ result = PyNone
    /\ events = <<>>

Modred ==
    /\ pc = "idle"
    /\ \E checked \in {modred_checks(sys)} :
       \E ELIM \in ElimLists(nstates(sys)), method \in Methods :
         LET out == modred(checked, sys, ELIM, method)
         IN  /\ pc' = out.pc
             /\ result' = out.result
             /\ call' = [op |-> "modred", ELIM |-> ELIM, method |-> method]
    /\ events' = <<>>
    /\ UNCHANGED <<sys, cvx, slycot, show_progress>>

Hsvd ==
    /\ pc = "idle"
    /\ \E unstable \in {AnyEigRealGeq(sys.A, Q(0))} :
       \E W \in Gramians(sys, unstable) :
         LET out == hsvd(sys, W)
         IN  /\ pc' = out.pc
             /\ result' = out.result
             /\ call' = [op |-> "hsvd", W |-> W]
    /\ events' = <<>>
    /\ UNCHANGED <<sys, cvx, slycot, show_progress>>

Balred ==
    /\ pc = "idle"
    /\ \E unstable \in {balred_unstable(sys)} :
       \E orders \in OrdersArgs, method \in Methods, alpha \in Alphas, fail_at \in 0..MaxOrders :
         LET out == balred(sys, orders, method, alpha, slycot, unstable, fail_at)
         IN  /\ pc' = out.pc
             /\ result' = out.result
             /\ call' = [op |-> "balred", orders |-> orders, method |-> method,
                         alpha |-> alpha, fail_at |-> fail_at]
    /\ events' = <<>>
    /\ UNCHANGED <<sys, cvx, slycot, show_progress>>

Ispassive ==
    /\ pc = "idle"
    /\ \E nu \in Indices, rho \in Indices :
       \E x \in SdpOutcomes(NumVars(sys, nu, rho)) :
         LET out == ispassive(sys, nu, rho, cvx, show_progress, x)
         IN  /\ pc' = out.pc
             /\ result' = out.result
             /\ events' = out.events
             /\ show_progress' = out.show_progress
             /\ call' = [op |-> "ispassive", nu |-> nu, rho |-> rho, x |-> x,
                         show_progress |-> show_progress]
    /\ UNCHANGED <<sys, cvx, slycot>>

GetPassiveIndex ==
    /\ pc = "idle"
    /\ \E index_type \in IndexTypes :
       \E x \in SdpOutcomes(NumVars(sys, None, Some(Baseline))) :
         LET out == getPassiveIndex(sys, index_type, cvx, show_progress, x)
         IN  /\ pc' = out.pc
             /\ result' = out.result
             /\ events' = out.events
             /\ show_progress' = out.show_progress
             /\ call' = [op |-> "getPassiveIndex", index_type |-> index_type, x |-> x,
                         show_progress |-> show_progress]
    /\ UNCHANGED <<sys, cvx, slycot>>

\* the caller takes the outcome and is ready for the next call
Return ==
    /\ pc # "idle"
    /\ pc' = "idle"
    /\ call' = [op |-> "none"]
    /\ result' = PyNone
    /\ events' = <<>>
    /\ UNCHANGED <<sys, cvx, slycot, show_progress>>

Next == Modred \/ Hsvd \/ Balred \/ Ispassive \/ GetPassiveIndex \/ Return

Spec == Init /\ [][Next]_vars

\* The calls of one function at a time; the packages it does not use are
\* installed. balred reads of A its eigenvalues only and the passivity calls
\* its size only: their systems are the ones with a diagonal A.
DiagonalA(s) == \A i, j \in 1..nstates(s) : i # j => QZero(s.A.a[i][j])

InitModelsimp == Init /\ cvx /\ slycot
InitBalred == Init /\ cvx /\ DiagonalA(sys)
InitPassivity == Init /\ slycot /\ DiagonalA(sys)

NextModred == Modred \/ Return
SpecModred == InitModelsimp /\ [][NextModred]_vars

NextHsvd == Hsvd \/ Return
SpecHsvd == InitModelsimp /\ [][NextHsvd]_vars

NextBalred == Balred \/ Return
SpecBalred == InitBalred /\ [][NextBalred]_vars

NextPassivity == Ispassive \/ GetPassiveIndex \/ Return
SpecPassivity == InitPassivity /\ [][NextPassivity]_vars

-----------------------------------------------------------------------------
(* Properties of modred *)

\* the last call was op and has ended
Ended(op) == pc # "idle" /\ call.op = op

RaisedWith(exc, msg) == pc = "raised" /\ result.exc = exc /\ result.msg = msg

\* all eigenvalues of sys.A have a negative real part
Stable == ~AnyEigRealGeq(sys.A, Q(0))

\* the blocks of a matrix over the index sets KEEP and ELIM, both ascending
ElimOf(ELIM) == SetToSeq(SeqRange(ELIM))
KeepOf(ELIM) == SetToSeq((0..(nstates(sys) - 1)) \ SeqRange(ELIM))
Block(M, rows, cols) == Rows(Cols(M, cols), rows)

MatAdd(X, Y) == Mat(X.nr, X.nc, LAMBDA i, j : QAdd(X.a[i][j], Y.a[i][j]))
MatNeg(X) == Mat(X.nr, X.nc, LAMBDA i, j : QNeg(X.a[i][j]))

\* the zero-frequency gain C (-A)^-1 B + D
DCGain(s) == MatAdd(MatMul(MatMul(s.C, Inv(MatNeg(s.A))), s.B), s.D)

\* C1: on a continuous-time, asymptotically stable system with n states, modred
\* with any list ELIM of distinct states (the empty and the full one included)
\* and method 'truncate', or 'matchdc' with A22 of full rank, returns a system
\* with n - |ELIM| states and the inputs and outputs of the original.
C1_ReducedStateCount ==
    ( /\ Ended("modred")
      /\ isctime(sys)
      /\ call.method \in {"truncate", "matchdc"}
      /\ call.method = "matchdc" =>
             FullRank(Block(sys.A, ElimOf(call.ELIM), ElimOf(call.ELIM)))
      /\ Stable )
    => /\ pc = "returned"
       /\ nstates(result) = nstates(sys) - Len(call.ELIM)
       /\ ninputs(result) = ninputs(sys)
       /\ noutputs(result) = noutputs(sys)

\* C2: modred on a continuous-time system whose A has an eigenvalue with real
\* part >= 0 raises ValueError for instability and returns nothing, whatever
\* ELIM and method are (stated by contraposition: a call on a continuous-time
\* system that ended in any other way was made on a stable system).
C2_UnstableRaisesInstability ==
    ( /\ Ended("modred")
      /\ isctime(sys)
      /\ ~RaisedWith("ValueError", "unstable") )
    => Stable

\* C2 witness: an unstable continuous-time system, no state to eliminate, an
\* unknown method: the call raised for instability.
C2_Witness ==
    /\ Ended("modred")
    /\ sys.dt = Some(0)
    /\ call.ELIM = <<>>
    /\ call.method = "other"
    /\ RaisedWith("ValueError", "unstable")
    /\ ~Stable

\* C9: on a stable continuous-time system, for every ELIM (here: every ELIM
\* that is not empty) with A22 of full rank, modred with 'matchdc' returns (A11 - A12 X, B1 - A12 Y, C1 - C2 X,
\* D - C2 Y) with X = A22^-1 A21 and Y = A22^-1 B2, whose zero-frequency gain
\* is that of the original system.
C9_MatchDCPreservesDCGain ==
    ( /\ Ended("modred")
      /\ isctime(sys)
      /\ call.method = "matchdc"
      /\ call.ELIM # <<>>
      /\ FullRank(Block(sys.A, ElimOf(call.ELIM), ElimOf(call.ELIM)))
      /\ Stable )
    => LET E == ElimOf(call.ELIM)
           K == KeepOf(call.ELIM)
           X == MatMul(Inv(Block(sys.A, E, E)), Block(sys.A, E, K))
           Y == MatMul(Inv(Block(sys.A, E, E)), Rows(sys.B, E))
       IN  /\ pc = "returned"
           /\ result.A = MatSub(Block(sys.A, K, K), MatMul(Block(sys.A, K, E), X))
           /\ result.B = MatSub(Rows(sys.B, K), MatMul(Block(sys.A, K, E), Y))
           /\ result.C = MatSub(Cols(sys.C, K), MatMul(Cols(sys.C, E), X))
           /\ result.D = MatSub(sys.D, MatMul(Cols(sys.C, E), Y))
           /\ DCGain(result) = DCGain(sys)

-----------------------------------------------------------------------------
(* Properties of hsvd *)

\* the row is non-increasing
Descending(row) == \A k \in 1..(Len(row) - 1) : QLeq(row[k + 1], row[k])

\* the entries of row are the square roots of the entries of w, each as often
RootsOf(row, w) ==
    /\ Len(row) = Len(w)
    /\ \A k \in DOMAIN row :
         Cardinality({ i \in DOMAIN row : row[i] = row[k] })
             = Cardinality({ i \in DOMAIN w : QEq(w[i], QMul(row[k], row[k])) })

\* C10: for a stable continuous-time system of order n, hsvd returns one row of
\* exactly n entries, non-increasing, each nonnegative, which are the square
\* roots of the eigenvalues of Wo*Wc reordered; on a strictly discrete-time
\* system it raises NotImplementedError instead.
C10_HsvdSortedDescending ==
    Ended("hsvd") =>
        IF isdtime_strict(sys) THEN RaisedWith("NotImplementedError", "discrete time")
        ELSE \/ /\ pc = "returned"
                /\ Len(result.rows) = 1
                /\ Len(result.rows[1]) = nstates(sys)
                /\ Descending(result.rows[1])
                /\ \A k \in DOMAIN result.rows[1] : result.rows[1][k][1] >= 0
                /\ RootsOf(result.rows[1], Eig(MatMul(call.W.Wo, call.W.Wc)))
             \/ /\ pc = "raised"
                /\ ~Stable

\* C10 witness: hsvd returned for a stable system of at least two states whose
\* eigenvalues of Wo*Wc came in ascending order and are not all equal.
C10_Witness ==
    /\ Ended("hsvd")
    /\ pc = "returned"
    /\ nstates(sys) >= 2
    /\ call.W.Wc.a[1][1] = Q(1)
    /\ call.W.Wc.a[2][2] = Q(4)
    /\ result.rows[1][1] # result.rows[1][nstates(sys)]
    /\ Stable

\* C13: on a continuous-time, asymptotically stable system, modred with a
\* method other than 'truncate' and 'matchdc' raises ValueError for the method,
\* whatever ELIM is: it returns no system and raises nothing else.
C13_InvalidMethodRaises ==
    ( /\ Ended("modred")
      /\ call.method \notin {"truncate", "matchdc"}
      /\ isctime(sys)
      /\ Stable )
    => RaisedWith("ValueError", "method")

-----------------------------------------------------------------------------
(* Properties of balred *)

\* C4: what balred returns has the shape of its orders argument: one reduced
\* system for a scalar order, and for a list of orders of any length (one
\* included) a list of one reduced system for each order, in the same order.
C4_ReturnShapeMirrorsOrders ==
    (Ended("balred") /\ pc = "returned") =>
        IF call.orders.tag = "scalar"
        THEN /\ result.kind = "StateSpace"
             /\ result.order = call.orders.order
        ELSE /\ result.kind = "list"
             /\ Len(result.items) = Len(call.orders.orders)
             /\ \A k \in DOMAIN result.items : result.items[k].order = call.orders.orders[k]

\* the stability boundary of the call: alpha, 0 when it is not given
AlphaOf == IF call.alpha = None THEN Q(0) ELSE call.alpha[1]

\* the reduced systems of the call, one for each order
ReducedSystems == IF result.kind = "list" THEN result.items ELSE <<result>>

\* C11: for every order asked for and every alpha (0 when not given), balred
\* with method 'truncate' calls the kernel that separates the unstable modes
\* (ab09md), with that alpha, iff A has an eigenvalue of real part >= alpha,
\* and the plain kernel (ab09ad) iff it has none.
C11_BranchUsesAlpha ==
    (Ended("balred") /\ pc = "returned" /\ call.method = "truncate") =>
        \A k \in DOMAIN ReducedSystems :
            LET r == ReducedSystems[k]
            IN  /\ r.kernel \in {"ab09md", "ab09ad"}
                /\ r.kernel = "ab09md" => r.alpha = Some(AlphaOf)
                /\ r.kernel = "ab09md" <=> AnyEigRealGeq(sys.A, AlphaOf)

-----------------------------------------------------------------------------
(* Properties of ispassive and getPassiveIndex *)

\* the last call was ispassive, or getPassiveIndex calling ispassive, and has ended
IspassiveEnded ==
    \/ Ended("ispassive")
    \/ Ended("getPassiveIndex") /\ call.index_type \in {Some("input"), Some("output")}

\* the nu and rho ispassive was called with
NuGiven ==
    IF call.op = "ispassive" THEN call.nu
    ELSE IF call.index_type = Some("output") THEN Some(Baseline) ELSE None
RhoGiven ==
    IF call.op = "ispassive" THEN call.rho
    ELSE IF call.index_type = Some("input") THEN Some(Baseline) ELSE None

DimensionMismatch == RaisedWith("Exception", "inputs and outputs")
NotSupported == RaisedWith("Exception", "discrete time")

\* no LMI was built and the solver was not invoked
NothingBuilt == events = <<>>

\* C3 as claimed: ispassive on a system whose inputs and outputs differ in
\* number raises DimensionMismatch before any LMI is built or the solver is
\* invoked, for every combination of nu and rho (here: with cvxopt imported).
C3_NonSquareRaisesDimensionMismatch ==
    (IspassiveEnded /\ cvx /\ ninputs(sys) # noutputs(sys))
    => (DimensionMismatch /\ NothingBuilt)

\* C3 as amended: ispassive on a system whose inputs and outputs differ in
\* number raises before any LMI is built or the solver is invoked, for every
\* combination of nu and rho: ModuleNotFoundError if cvxopt is missing,
\* otherwise the discrete-time exception if the system is discrete-time and nu
\* and rho are both set, otherwise DimensionMismatch.
C3_NonSquareRaisesBeforeSolver ==
    (IspassiveEnded /\ ninputs(sys) # noutputs(sys))
    => /\ NothingBuilt
       /\ show_progress = call.show_progress
       /\ IF ~cvx THEN RaisedWith("ModuleNotFoundError", "cvxopt")
          ELSE IF ~isctime(sys) /\ NuGiven # None /\ RhoGiven # None THEN NotSupported
          ELSE DimensionMismatch

\* C3 witness: a discrete-time system with one input and two outputs, one index
\* set: the call raised DimensionMismatch.
C3_Witness ==
    /\ Ended("ispassive")
    /\ cvx
    /\ ~isctime(sys)
    /\ ninputs(sys) = 1 /\ noutputs(sys) = 2
    /\ call.nu # None /\ call.rho = None
    /\ DimensionMismatch

\* C5: ispassive on a discrete-time system with exactly one of nu, rho set (as
\* getPassiveIndex calls it) raises the discrete-time exception and does not
\* invoke the solver (here: with cvxopt imported, as many inputs as outputs).
C5_DiscreteIndexNotSupported ==
    ( /\ IspassiveEnded
      /\ cvx
      /\ ~isctime(sys)
      /\ ninputs(sys) = noutputs(sys)
      /\ (NuGiven = None) # (RhoGiven = None) )
    => (NotSupported /\ NothingBuilt)

\* C6: getPassiveIndex raises for every index_type other than "input" and
\* "output", a missing one and any other string alike.
C6_InvalidSideRaises ==
    (Ended("getPassiveIndex") /\ call.index_type \notin {Some("input"), Some("output")})
    => RaisedWith("Exception", "index_type")

\* C7: when an ispassive or getPassiveIndex call has returned or raised, the
\* solver's show_progress option has the value it had before the call.
C7_ShowProgressRestored ==
    (Ended("ispassive") \/ Ended("getPassiveIndex"))
    => show_progress = call.show_progress

\* C8: when ispassive has invoked the solver: with nu and rho both unset it
\* returns True iff the solver found a point; with nu or rho set it returns a
\* real number, the last entry of the solver's solution, never a boolean or None.
C8_ResultInterpretation ==
    (IspassiveEnded /\ ~NothingBuilt)
    => /\ pc = "returned"
       /\ IF NuGiven = None /\ RhoGiven = None
          THEN result.kind = "bool" /\ result.b = (call.x # None)
          ELSE /\ result.kind = "float"
               /\ call.x # None => result.x = call.x[1][Len(call.x[1])]

\* what the solver was called with
SdpCall == events[2]

\* n(n+1)/2 for the n states of sys
BasisSize == (nstates(sys) * (nstates(sys) + 1)) \div 2

\* exactly one of nu and rho is fixed
OneIndexFixed == (NuGiven = None) # (RhoGiven = None)

\* C12: in every ispassive call on a system with n states that gets to the
\* solver, the basis of P has n(n+1)/2 elements, one for each (i, j) with
\* j <= i, and the cost vector, the coefficient block of the system LMI and the
\* coefficient block of P > 0 have the same number of variables: n(n+1)/2 when
\* nu and rho are both unset or both fixed, and n(n+1)/2 + 1, the extra cost
\* coefficient being -1, when exactly one of them is fixed.
C12_LmiVariableCount ==
    (IspassiveEnded /\ ~NothingBuilt) =>
        LET c == SdpCall.c
            sys_block == SdpCall.Gs[1]
            P_block == SdpCall.Gs[2]
            basis == { k \in DOMAIN sys_block : sys_block[k].what = "make_LMI_matrix(P)" }
            nvars == BasisSize + (IF OneIndexFixed THEN 1 ELSE 0)
        IN  /\ Cardinality(basis) = BasisSize
            /\ { sys_block[k].ij : k \in basis }
                 = { <<i, j>> \in (0..(nstates(sys) - 1)) \X (0..(nstates(sys) - 1)) : j <= i }
            /\ Len(c) = nvars
            /\ Len(sys_block) = nvars
            /\ Len(P_block) = nvars
            /\ \A k \in 1..BasisSize : QZero(c[k])
            /\ OneIndexFixed => c[nvars] = Q(-1)

\* C12 witness: a call with exactly one index fixed on a system with two states
\* got to the solver with a cost vector of four entries.
C12_Witness ==
    /\ IspassiveEnded
    /\ ~NothingBuilt
    /\ nstates(sys) = 2
    /\ OneIndexFixed
    /\ Len(SdpCall.c) = 4
    /\ Len(SdpCall.Gs[2]) = 4

====
